---- MODULE Spec2Model ----
(***************************************************************************)
(* A model of the INA226 driver (src/INA226.c).  The driver is a set of    *)
(* synchronous C functions working on one INA226_config object and talking *)
(* to the chip through three transport callbacks.  Every driver function   *)
(* is one action; the bus transactions it issues are recorded, in order,   *)
(* in busLog, and the driver object and the chip's register file as they   *)
(* were when the call began are kept in pre.                               *)
(***************************************************************************)
EXTENDS Integers, Sequences, FiniteSets, TLC

VARIABLES
    Config,      \* the INA226_config object: mInitialized, mI2C_Address, ...
    Result,      \* INA226.Result: the four values MeasureAll stores
    reg,         \* the chip's register file, register address -> 16-bit value
    lastOp,      \* the last call: [name, arg, val, latch]
    lastStatus,  \* the status that call returned ("NONE": it returns no status)
    lastRet,     \* the value that call returned or stored through its out pointer
    busLog,      \* the transport calls that call issued, in order
    pre,         \* [Config, reg, mode] when that call began
    hibernated,  \* history: the operating mode a Hibernate put to sleep (0: none)
    steps        \* number of steps taken so far

vars == <<Config, Result, reg, lastOp, lastStatus, lastRet, busLog, pre, hibernated, steps>>

-----------------------------------------------------------------------------
(* Bounds of the model *)

\* the bus stays disturbed for at most this many consecutive transport calls
MaxFaults == 2
\* number of distinct values another bus master writes to the configuration register
MaxExt == 2
\* number of distinct conversion results the chip produces
MaxSample == 1
\* length of a run of the full driver
MaxSteps == 2
\* length of a run of the power-state and configuration functions
MaxCfgSteps == 3
\* length of a run of the power-state functions on a disturbed bus
MaxPowerSteps == 4
\* length of a run of the alert functions
MaxAlertSteps == 2
\* length of a run of mode changes, Hibernate and Wakeup on an undisturbed bus
MaxWakeSteps == 3

-----------------------------------------------------------------------------
(* Register map and constants, src/INA226.c lines 49-86 *)

INA226_CONFIG          == 0
INA226_SHUNT_VOLTAGE   == 1
INA226_BUS_VOLTAGE     == 2
INA226_POWER           == 3
INA226_CURRENT         == 4
INA226_CALIBRATION     == 5
INA226_MASK_ENABLE     == 6
INA226_ALERT_LIMIT     == 7
INA226_MANUFACTURER_ID == 254
INA226_DIE_ID          == 255

INA226_BUS_VOLTAGE_LSB    == 1250
INA226_POWER_LSB_FACTOR   == 25
INA226_MANUFACTURER_ID_K  == 21577     \* 0x5449
INA226_DIE_ID_K           == 8800      \* 0x2260
INA226_CONFIG_RESET_VALUE == 16679     \* 0x4127
INA226_CONFIG_DEFAULT     == 17703     \* 0x4527

cResetCommand              == 32768    \* 0x8000
cOperatingModeMask         == 7        \* 0x0007
cAlertPinModeMask          == 64512    \* 0xFC00
cAlertCauseMask            == 30       \* 0x001E
cAlertLatchingMode         == 1        \* 0x0001
cSampleAvgMask             == 3584     \* 0x0E00
cBusVoltageConvTimeMask    == 448      \* 0x01C0
cShuntVoltageConvTimeMask  == 56       \* 0x0038
cSampleAvgIdxShift         == 9
cBusVoltConvTimeIdxShift   == 6
cShuntVoltConvTimeIdxShift == 3
cMaxSampleAvgTblIdx_OffByOne == 7 + 1
cMaxSampleAvgTblIdx        == 7
cMaxConvTimeTblIdx         == 7

(* Enumerators of INA226.h, which is not part of src/.  The operating modes *)
(* are the chip's 3-bit MODE field; Wakeup compares against Shutdown and    *)
(* against 0 separately (lines 276-277), the chip's two power-down codes.   *)
Shutdown                     == 4
ShuntAndBusVoltageContinuous == 7
Unknown                      == 0

ClearTriggers          == 0
ShuntVoltageOverLimit  == 32768        \* 0x8000
ShuntVoltageUnderLimit == 16384        \* 0x4000
BusVoltageOverLimit    == 8192         \* 0x2000
BusVoltageUnderLimit   == 4096         \* 0x1000
PowerOverLimit         == 2048         \* 0x0800
ConversionReady        == 1024         \* 0x0400

Registers == {INA226_CONFIG, INA226_SHUNT_VOLTAGE, INA226_BUS_VOLTAGE, INA226_POWER,
              INA226_CURRENT, INA226_CALIBRATION, INA226_MASK_ENABLE,
              INA226_ALERT_LIMIT, INA226_MANUFACTURER_ID, INA226_DIE_ID}

-----------------------------------------------------------------------------
(* C integer arithmetic *)

Pow2(n) == 2 ^ n

\* a & b on the low w bits of two non-negative integers
RECURSIVE BitAnd(_, _, _)
BitAnd(a, b, w) ==
    IF w = 0 \/ a = 0 \/ b = 0 THEN 0
    ELSE ((a % 2) * (b % 2)) + 2 * BitAnd(a \div 2, b \div 2, w - 1)

\* a | b on the low w bits of two non-negative integers
RECURSIVE BitOr(_, _, _)
BitOr(a, b, w) ==
    IF w = 0 THEN 0
    ELSE (IF a % 2 = 1 \/ b % 2 = 1 THEN 1 ELSE 0) + 2 * BitOr(a \div 2, b \div 2, w - 1)

\* ~a on w bits
BitNot(a, w) == (Pow2(w) - 1) - (a % Pow2(w))

And16(a, b) == BitAnd(a % 65536, b % 65536, 16)
Or16(a, b)  == BitOr(a % 65536, b % 65536, 16)
\* x &= ~mask on a uint16_t
Clear16(x, mask) == And16(x, BitNot(mask, 16))

\* conversions to the 16-bit types.  The int32_t values of the driver are
\* plain integers here: every product and shift the inputs below lead to
\* stays inside int32_t.
ToU16(x) == x % 65536
ToI16(x) == LET u == x % 65536 IN IF u >= 32768 THEN u - 65536 ELSE u

\* a | b on two int32_t values, in two's complement, by 16-bit halves
Or32(a, b) ==
    LET hi == BitOr((a \div 65536) % 65536, (b \div 65536) % 65536, 16)
        lo == BitOr(a % 65536, b % 65536, 16)
    IN ToI16(hi) * 65536 + lo

\* C's a / b: the quotient truncated towards zero (b > 0)
CDiv(a, b) == IF a >= 0 THEN a \div b ELSE -((-a) \div b)

-----------------------------------------------------------------------------
(* The transport callbacks (INA226_callback.h) and the chip behind them.    *)
(* A machine state m is [Config, reg, log]; F is the set of positions, in   *)
(* the sequence of transport calls of one driver call, that report failure. *)

Fails(F, m) == (Len(m.log) + 1) \in F

Logged(m, k, r, v, ok) == Append(m.log, [k |-> k, r |-> r, v |-> v, ok |-> ok])

\* what a 3-byte write does to the register file
DeviceWrite(rg, r, v) ==
    IF r = INA226_CONFIG /\ v >= cResetCommand
      THEN [rg EXCEPT ![INA226_CONFIG] = INA226_CONFIG_RESET_VALUE,
                      ![INA226_CALIBRATION] = 0,
                      ![INA226_MASK_ENABLE] = 0,
                      ![INA226_ALERT_LIMIT] = 0]
    ELSE IF r \in {INA226_CONFIG, INA226_CALIBRATION, INA226_MASK_ENABLE, INA226_ALERT_LIMIT}
      THEN [rg EXCEPT ![r] = v]
    ELSE rg

\* what a 2-byte read does to the register file: reading Mask/Enable clears
\* the latched alert cause
DeviceRead(rg, r) ==
    IF r = INA226_MASK_ENABLE
      THEN [rg EXCEPT ![r] = Clear16(rg[r], cAlertCauseMask)]
      ELSE rg

\* Check_device(this, address, 10): 0 when a device answers
Check_device(F, m, aI2C_Address) ==
    LET ok == ~Fails(F, m) IN
    [m |-> [m EXCEPT !.log = Logged(m, "probe", 0, aI2C_Address, ok)],
     ret |-> IF ok THEN 0 ELSE 1]

\* Transmit(this, &aRegister, 1): sets the chip's register pointer
Transmit1(F, m, aRegister) ==
    LET ok == ~Fails(F, m) IN
    [m |-> [m EXCEPT !.log = Logged(m, "txptr", aRegister, 0, ok)],
     ret |-> IF ok THEN 0 ELSE 1]

\* Transmit(this, buffer, 3): register address, high byte, low byte
Transmit3(F, m, b0, b1, b2) ==
    LET ok == ~Fails(F, m)
        v  == b1 * 256 + b2
    IN [m |-> [m EXCEPT !.log = Logged(m, "write", b0, v, ok),
                        !.reg = IF ok THEN DeviceWrite(m.reg, b0, v) ELSE m.reg],
        ret |-> IF ok THEN 0 ELSE 1]

\* Receive(this, buffer, 2) after the pointer was set to aRegister
Receive2(F, m, aRegister) ==
    LET ok == ~Fails(F, m)
        v  == IF ok THEN m.reg[aRegister] ELSE 0
    IN [m |-> [m EXCEPT !.log = Logged(m, "rx", aRegister, v, ok),
                        !.reg = IF ok THEN DeviceRead(m.reg, aRegister) ELSE m.reg],
        ret |-> IF ok THEN 0 ELSE 1,
        b0 |-> v \div 256,
        b1 |-> v % 256]

-----------------------------------------------------------------------------
(* Register access layer.  A call's outcome is [m, s, v]: the machine state *)
(* after it, the status it returned and the value left in *aValue_p.        *)

\* lines 168-172: the status for the return value c of Check_device
INA226_CheckI2cAddress_Return(c) ==
    [m |-> c.m, s |-> IF c.ret # 0 THEN "INVALID_I2C_ADDRESS" ELSE "OK", v |-> 0]

INA226_CheckI2cAddress(F, m, aI2C_Address) ==
    INA226_CheckI2cAddress_Return(Check_device(F, m, aI2C_Address))

\* lines 186-191: the outcome r of Receive, and the two bytes put together
INA226_ReadRegister_Return(r) ==
    IF r.ret # 0 THEN [m |-> r.m, s |-> "FAIL", v |-> 0]
    ELSE [m |-> r.m, s |-> "OK", v |-> ToU16(r.b0 * 256 + r.b1)]

\* lines 182-186: the outcome t of Transmit, then Receive
INA226_ReadRegister_Receive(F, t, aRegister) ==
    IF t.ret # 0 THEN [m |-> t.m, s |-> "FAIL", v |-> 0]
    ELSE INA226_ReadRegister_Return(Receive2(F, t.m, aRegister))

\* *aValue_p = 0 comes first, so a failed read leaves 0 in it
INA226_ReadRegister(F, m, aRegister) ==
    INA226_ReadRegister_Receive(F, Transmit1(F, m, aRegister), aRegister)

\* lines 201-205: the status for the outcome t of Transmit
INA226_WriteRegister_Return(t) ==
    [m |-> t.m, s |-> IF t.ret # 0 THEN "FAIL" ELSE "OK", v |-> 0]

INA226_WriteRegister(F, m, aRegister, aValue) ==
    INA226_WriteRegister_Return(
        Transmit3(F, m, aRegister, (aValue \div 256) % 256, aValue % 256))

\* CHECK_INITIALIZED(): if(!this->mInitialized) return NOT_INITIALIZED; the
\* value is whether the macro returns from the enclosing function
CHECK_INITIALIZED_Inverted(m) == m.Config.mInitialized
CHECK_INITIALIZED(m) == ~m.Config.mInitialized

-----------------------------------------------------------------------------
(* The driver functions.  A function's outcome is [m, s, out]: the machine  *)
(* state after it, the status it returned, and the value it returned or     *)
(* stored through its out pointer.  A function with several checked steps   *)
(* is written as one definition for each step, last step first; a step      *)
(* takes the outcome c of the step before it and runs the function to its   *)
(* return.                                                                  *)

Outcome(m, s, out) == [m |-> m, s |-> s, out |-> out]

\* return fn(...): the function returns the status of its last call
Return(w) == Outcome(w.m, w.s, 0)

SetConfigRegister(m, v) == [m EXCEPT !.Config.mConfigRegister = v]

\* the numerator of theCal with the shunt in milliohms and the current LSB in
\* microamps: 0.00521 / (R * (LSB / 1000000.0)) = 5210000 / (R_mOhm * LSB_uA)
cCalibrationScale == 5210000

\* a constructor that leaves mInitialized as it was
INA226_Constructor_KeepsFlag(m, aI2C_Address) ==
    [m EXCEPT !.Config = [mInitialized |-> m.Config.mInitialized,
                          mI2C_Address |-> aI2C_Address,
                          mConfigRegister |-> 0,
                          mCalibrationValue |-> 0,
                          mCurrentMicroAmpsPerBit |-> 0,
                          mPowerMicroWattPerBit |-> 0]]

INA226_Constructor(m, aI2C_Address) ==
    [m EXCEPT !.Config = [mInitialized |-> FALSE,
                          mI2C_Address |-> aI2C_Address,
                          mConfigRegister |-> 0,
                          mCalibrationValue |-> 0,
                          mCurrentMicroAmpsPerBit |-> 0,
                          mPowerMicroWattPerBit |-> 0]]

\* a calibration that leaves mPowerMicroWattPerBit as it was
INA226_setupCalibration_Store_StalePower(F, m, theCurrentLSB, theCal) ==
    INA226_WriteRegister(F,
        [m EXCEPT !.Config.mCurrentMicroAmpsPerBit = theCurrentLSB,
                  !.Config.mCalibrationValue = ToU16(theCal)],
        INA226_CALIBRATION, ToU16(theCal))

\* lines 157-161: store the three values, write the calibration register
INA226_setupCalibration_Store(F, m, theCurrentLSB, theCal) ==
    INA226_WriteRegister(F,
        [m EXCEPT !.Config.mCurrentMicroAmpsPerBit = theCurrentLSB,
                  !.Config.mCalibrationValue = ToU16(theCal),
                  !.Config.mPowerMicroWattPerBit = theCurrentLSB * INA226_POWER_LSB_FACTOR],
        INA226_CALIBRATION, ToU16(theCal))

\* line 155: theCal from theCurrentLSB
INA226_setupCalibration_Cal(F, m, aShuntResistor_mOhm, theCurrentLSB) ==
    INA226_setupCalibration_Store(F, m, theCurrentLSB,
        cCalibrationScale \div (aShuntResistor_mOhm * theCurrentLSB))

\* aShuntResistor is in milliohms and aMaxCurrent in milliamps; both doubles
\* of the source hold such values exactly enough for ceil and the truncating
\* conversion to give the integer results computed here.
INA226_setupCalibration(F, m, aShuntResistor_mOhm, aMaxCurrent_mA) ==
    INA226_setupCalibration_Cal(F, m, aShuntResistor_mOhm,
        (aMaxCurrent_mA * 1000 + 32766) \div 32767)

\* the call fn(this, a, b) that CALL_FN is given, made in state m
Invoke(F, call, m) ==
    CASE call.fn = "INA226_CheckI2cAddress"  -> INA226_CheckI2cAddress(F, m, call.a)
      [] call.fn = "INA226_ReadRegister"     -> INA226_ReadRegister(F, m, call.a)
      [] call.fn = "INA226_WriteRegister"    -> INA226_WriteRegister(F, m, call.a, call.b)
      [] call.fn = "INA226_setupCalibration" -> INA226_setupCalibration(F, m, call.a, call.b)

\* if(fn != OK){return s;} with r1 the outcome of the first expansion of fn
\* and r2 that of the second
CALL_FN_Return(r1, r2) ==
    [m |-> r2.m, s |-> r1.s, v |-> r2.v, ret |-> (r2.s # "OK")]

\* the second expansion of fn, made in the state the first one left
CALL_FN_Again(F, call, r1) == CALL_FN_Return(r1, Invoke(F, call, r1.m))

\* CALL_FN(fn): { status s = fn; if(fn != OK){return s;} }.  The macro
\* argument is expanded twice, so the call is made twice; the outcome carries
\* the state after the second call, the first call's status in s, the second
\* call's *aValue_p in v, and in ret whether the macro returns from the
\* enclosing function.
CALL_FN(F, call, m) == CALL_FN_Again(F, call, Invoke(F, call, m))

\* aValue_p is &(this->mConfigRegister): the value read lands in the copy
StoreConfigRegister(c) ==
    [m |-> SetConfigRegister(c.m, c.v), s |-> c.s, v |-> c.v, ret |-> c.ret]

\* CALL_FN( INA226_ReadRegister(this, INA226_CONFIG, &(this->mConfigRegister)) )
CALL_FN_ReadConfig(F, m) ==
    StoreConfigRegister(
        CALL_FN(F, [fn |-> "INA226_ReadRegister", a |-> INA226_CONFIG, b |-> 0], m))

\* return INA226_WriteRegister(this, INA226_CONFIG, this->mConfigRegister)
WriteConfigRegister(F, m) ==
    Return(INA226_WriteRegister(F, m, INA226_CONFIG, m.Config.mConfigRegister))

\* Another bus master writing the configuration register while Init runs,
\* between the driver's write of the default and its read-back (k = 0: none).
ExtConfig(k) == (INA226_CONFIG_DEFAULT + k * 4681) % 32768
Interfere(m, k) ==
    IF k = 0 THEN m ELSE [m EXCEPT !.reg[INA226_CONFIG] = ExtConfig(k)]

\* lines 136-139: after the calibration
INA226_Init_Finish(c) ==
    IF c.ret THEN Outcome(c.m, c.s, 0)
    ELSE Outcome([c.m EXCEPT !.Config.mInitialized = TRUE], "OK", 0)

\* lines 128-136: after the read-back of the configuration register
INA226_Init_Calibrate(F, c, aShuntResistor_mOhm, aMaxCurrent_mA) ==
    IF c.ret THEN Outcome(c.m, c.s, 0)
    ELSE IF c.m.Config.mConfigRegister # INA226_CONFIG_DEFAULT
      THEN Outcome(c.m, "CONFIG_ERROR", 0)
    ELSE INA226_Init_Finish(
            CALL_FN(F, [fn |-> "INA226_setupCalibration",
                        a |-> aShuntResistor_mOhm, b |-> aMaxCurrent_mA], c.m))

\* lines 125-128: after the write of the default configuration
INA226_Init_ReadBack(F, c, aShuntResistor_mOhm, aMaxCurrent_mA, k) ==
    IF c.ret THEN Outcome(c.m, c.s, 0)
    ELSE INA226_Init_Calibrate(F, CALL_FN_ReadConfig(F, Interfere(c.m, k)),
                               aShuntResistor_mOhm, aMaxCurrent_mA)

\* lines 122-125: after the reset
INA226_Init_WriteDefault(F, c, aShuntResistor_mOhm, aMaxCurrent_mA, k) ==
    IF c.ret THEN Outcome(c.m, c.s, 0)
    ELSE INA226_Init_ReadBack(F,
            CALL_FN(F, [fn |-> "INA226_WriteRegister",
                        a |-> INA226_CONFIG, b |-> INA226_CONFIG_DEFAULT], c.m),
            aShuntResistor_mOhm, aMaxCurrent_mA, k)

\* an Init that resets the chip whatever the die ID read
INA226_Init_Reset_NoDieCheck(F, c, aShuntResistor_mOhm, aMaxCurrent_mA, k) ==
    IF c.ret THEN Outcome(c.m, c.s, 0)
    ELSE INA226_Init_WriteDefault(F,
            CALL_FN(F, [fn |-> "INA226_WriteRegister",
                        a |-> INA226_CONFIG, b |-> cResetCommand], c.m),
            aShuntResistor_mOhm, aMaxCurrent_mA, k)

\* lines 114-122: after the read of the die ID
INA226_Init_Reset(F, c, aShuntResistor_mOhm, aMaxCurrent_mA, k) ==
    IF c.ret THEN Outcome(c.m, c.s, 0)
    ELSE IF c.v # INA226_DIE_ID_K THEN Outcome(c.m, "INA226_DIE_ID_MISMATCH", 0)
    ELSE INA226_Init_WriteDefault(F,
            CALL_FN(F, [fn |-> "INA226_WriteRegister",
                        a |-> INA226_CONFIG, b |-> cResetCommand], c.m),
            aShuntResistor_mOhm, aMaxCurrent_mA, k)

\* lines 110-114: after the read of the manufacturer ID
INA226_Init_DieId(F, c, aShuntResistor_mOhm, aMaxCurrent_mA, k) ==
    IF c.ret THEN Outcome(c.m, c.s, 0)
    ELSE IF c.v # INA226_MANUFACTURER_ID_K THEN Outcome(c.m, "INA226_TI_ID_MISMATCH", 0)
    ELSE INA226_Init_Reset(F,
            CALL_FN(F, [fn |-> "INA226_ReadRegister", a |-> INA226_DIE_ID, b |-> 0], c.m),
            aShuntResistor_mOhm, aMaxCurrent_mA, k)

\* lines 106-110: after the address probe
INA226_Init_ManufacturerId(F, c, aShuntResistor_mOhm, aMaxCurrent_mA, k) ==
    IF c.ret THEN Outcome(c.m, c.s, 0)
    ELSE INA226_Init_DieId(F,
            CALL_FN(F, [fn |-> "INA226_ReadRegister",
                        a |-> INA226_MANUFACTURER_ID, b |-> 0], c.m),
            aShuntResistor_mOhm, aMaxCurrent_mA, k)

\* lines 101-106: the constructor and the address probe
INA226_Init(F, m, aI2C_Address, aShuntResistor_mOhm, aMaxCurrent_mA, k) ==
    INA226_Init_ManufacturerId(F,
        CALL_FN(F, [fn |-> "INA226_CheckI2cAddress", a |-> aI2C_Address, b |-> 0],
                INA226_Constructor(m, aI2C_Address)),
        aShuntResistor_mOhm, aMaxCurrent_mA, k)

-----------------------------------------------------------------------------
(* Measurements.  These return the value and no status; r is the outcome of *)
(* the register read, whose status the function ignores.                    *)

\* lines 218-220: theRegisterValue >> 1 plus theRegisterValue << 1
INA226_GetShuntVoltage_uV_Return(m, theRegisterValue) ==
    Outcome(m, "NONE", (theRegisterValue \div 2) + (theRegisterValue * 2))

INA226_GetShuntVoltage_uV_Convert(r) ==
    INA226_GetShuntVoltage_uV_Return(r.m, ToI16(r.v))

INA226_GetShuntVoltage_uV(F, m) ==
    INA226_GetShuntVoltage_uV_Convert(INA226_ReadRegister(F, m, INA226_SHUNT_VOLTAGE))

INA226_GetBusVoltage_uV_Convert(r) ==
    Outcome(r.m, "NONE", r.v * INA226_BUS_VOLTAGE_LSB)

INA226_GetBusVoltage_uV(F, m) ==
    INA226_GetBusVoltage_uV_Convert(INA226_ReadRegister(F, m, INA226_BUS_VOLTAGE))

INA226_GetCurrent_uA_Convert(r) ==
    Outcome(r.m, "NONE", ToI16(r.v) * r.m.Config.mCurrentMicroAmpsPerBit)

INA226_GetCurrent_uA(F, m) ==
    INA226_GetCurrent_uA_Convert(INA226_ReadRegister(F, m, INA226_CURRENT))

INA226_GetPower_uW_Convert(r) ==
    Outcome(r.m, "NONE", r.v * r.m.Config.mPowerMicroWattPerBit)

INA226_GetPower_uW(F, m) ==
    INA226_GetPower_uW_Convert(INA226_ReadRegister(F, m, INA226_POWER))

\* the int r converted to the function's return type status: OK is 0
StatusOfInt(r) == IF r = 0 THEN "OK" ELSE "NONZERO"

\* line 253: return r
INA226_MeasureAll_Return(m, r) == Outcome(m, StatusOfInt(r), r)

\* line 252, with g the outcome of INA226_GetPower_uW
INA226_MeasureAll_Power(r, g) ==
    INA226_MeasureAll_Return([g.m EXCEPT !.Result.Power_uW = g.out], Or32(r, g.out))

\* line 251, with g the outcome of INA226_GetCurrent_uA
INA226_MeasureAll_Current(F, r, g) ==
    INA226_MeasureAll_Power(Or32(r, g.out),
        INA226_GetPower_uW(F, [g.m EXCEPT !.Result.Current_uA = g.out]))

\* line 250, with g the outcome of INA226_GetBusVoltage_uV
INA226_MeasureAll_Bus(F, r, g) ==
    INA226_MeasureAll_Current(F, Or32(r, g.out),
        INA226_GetCurrent_uA(F, [g.m EXCEPT !.Result.BusVoltage_uV = g.out]))

\* line 249, with g the outcome of INA226_GetShuntVoltage_uV
INA226_MeasureAll_Shunt(F, r, g) ==
    INA226_MeasureAll_Bus(F, Or32(r, g.out),
        INA226_GetBusVoltage_uV(F, [g.m EXCEPT !.Result.ShuntVoltage_uV = g.out]))

INA226_MeasureAll(F, m) ==
    INA226_MeasureAll_Shunt(F, 0, INA226_GetShuntVoltage_uV(F, m))

-----------------------------------------------------------------------------
(* Power state and configuration *)

\* a Hibernate that clears the mode bits in the driver's copy as well
INA226_Hibernate_Write_ClearsCopy(F, c) ==
    IF c.ret THEN Outcome(c.m, c.s, 0)
    ELSE WriteConfigRegister(F,
            SetConfigRegister(c.m, Clear16(c.m.Config.mConfigRegister, cOperatingModeMask)))

\* lines 260-265: after the read of the configuration register
INA226_Hibernate_Write(F, c) ==
    IF c.ret THEN Outcome(c.m, c.s, 0)
    ELSE Return(INA226_WriteRegister(F, c.m, INA226_CONFIG,
                    Clear16(c.m.Config.mConfigRegister, cOperatingModeMask)))

INA226_Hibernate(F, m) ==
    IF CHECK_INITIALIZED(m) THEN Outcome(m, "NOT_INITIALIZED", 0)
    ELSE INA226_Hibernate_Write(F, CALL_FN_ReadConfig(F, m))

\* a wake-up that restores the copy as it is
INA226_Wakeup_NoShutdownCheck(F, m) ==
    IF CHECK_INITIALIZED(m) THEN Outcome(m, "NOT_INITIALIZED", 0)
    ELSE WriteConfigRegister(F, m)

\* lines 276-282
INA226_Wakeup_Write(F, m, theLastOperatingMode) ==
    IF theLastOperatingMode = Shutdown \/ theLastOperatingMode = 0
      THEN WriteConfigRegister(F,
              SetConfigRegister(m,
                  Or16(Clear16(m.Config.mConfigRegister, cOperatingModeMask),
                       ShuntAndBusVoltageContinuous)))
      ELSE WriteConfigRegister(F, m)

INA226_Wakeup(F, m) ==
    IF CHECK_INITIALIZED(m) THEN Outcome(m, "NOT_INITIALIZED", 0)
    ELSE INA226_Wakeup_Write(F, m, And16(m.Config.mConfigRegister, cOperatingModeMask))

\* lines 291-294, on the value of this->mConfigRegister in m
INA226_SetOperatingMode_Write(F, m, aOpMode) ==
    WriteConfigRegister(F,
        SetConfigRegister(m,
            Or16(Clear16(m.Config.mConfigRegister, cOperatingModeMask), ToU16(aOpMode))))

\* a mode change worked out from the driver's copy, without reading the register
INA226_SetOperatingMode_Cached(F, m, aOpMode) ==
    IF CHECK_INITIALIZED(m) THEN Outcome(m, "NOT_INITIALIZED", 0)
    ELSE INA226_SetOperatingMode_Write(F, m, aOpMode)

\* lines 288-294: after the read of the configuration register
INA226_SetOperatingMode_Read(F, c, aOpMode) ==
    IF c.ret THEN Outcome(c.m, c.s, 0)
    ELSE INA226_SetOperatingMode_Write(F, c.m, aOpMode)

INA226_SetOperatingMode(F, m, aOpMode) ==
    IF CHECK_INITIALIZED(m) THEN Outcome(m, "NOT_INITIALIZED", 0)
    ELSE INA226_SetOperatingMode_Read(F, CALL_FN_ReadConfig(F, m), aOpMode)

\* lines 388-398: after the read of the configuration register
INA226_ConfigureVoltageConversionTime_Write(F, c, aIndexToConversionTimeTable) ==
    IF c.ret THEN Outcome(c.m, c.s, 0)
    ELSE WriteConfigRegister(F,
            SetConfigRegister(c.m,
                Or16(Clear16(c.m.Config.mConfigRegister,
                             Or16(cBusVoltageConvTimeMask, cShuntVoltageConvTimeMask)),
                     Or16(ToU16(ToU16(aIndexToConversionTimeTable)
                                    * Pow2(cBusVoltConvTimeIdxShift)),
                          ToU16(ToU16(aIndexToConversionTimeTable)
                                    * Pow2(cShuntVoltConvTimeIdxShift))))))

INA226_ConfigureVoltageConversionTime(F, m, aIndexToConversionTimeTable) ==
    IF CHECK_INITIALIZED(m) THEN Outcome(m, "NOT_INITIALIZED", 0)
    ELSE IF aIndexToConversionTimeTable < 0 \/ aIndexToConversionTimeTable > cMaxConvTimeTblIdx
      THEN Outcome(m, "BAD_PARAMETER", 0)
    ELSE INA226_ConfigureVoltageConversionTime_Write(F, CALL_FN_ReadConfig(F, m),
                                                     aIndexToConversionTimeTable)

\* lines 410-416: after the read of the configuration register
INA226_ConfigureNumSampleAveraging_Write(F, c, aIndexToSampleAverageTable) ==
    IF c.ret THEN Outcome(c.m, c.s, 0)
    ELSE WriteConfigRegister(F,
            SetConfigRegister(c.m,
                Or16(Clear16(c.m.Config.mConfigRegister, cSampleAvgMask),
                     ToU16(aIndexToSampleAverageTable * Pow2(cSampleAvgIdxShift)))))

INA226_ConfigureNumSampleAveraging(F, m, aIndexToSampleAverageTable) ==
    IF CHECK_INITIALIZED(m) THEN Outcome(m, "NOT_INITIALIZED", 0)
    ELSE IF aIndexToSampleAverageTable < 0 \/ aIndexToSampleAverageTable > cMaxSampleAvgTblIdx
      THEN Outcome(m, "BAD_PARAMETER", 0)
    ELSE INA226_ConfigureNumSampleAveraging_Write(F, CALL_FN_ReadConfig(F, m),
                                                  aIndexToSampleAverageTable)

\* return INA226_ReadRegister(...): the status and the value in *aConfigReg_p
INA226_Debug_GetConfigRegister_Return(r) == Outcome(r.m, r.s, r.v)

INA226_Debug_GetConfigRegister(F, m) ==
    IF CHECK_INITIALIZED(m) THEN Outcome(m, "NOT_INITIALIZED", 0)
    ELSE INA226_Debug_GetConfigRegister_Return(INA226_ReadRegister(F, m, INA226_CONFIG))

-----------------------------------------------------------------------------
(* The alert pin *)

AlertTriggers == {ClearTriggers, ShuntVoltageOverLimit, ShuntVoltageUnderLimit,
                  BusVoltageOverLimit, BusVoltageUnderLimit, PowerOverLimit,
                  ConversionReady}

\* the switch of lines 322-343: the alert-limit value of a recognised trigger
AlertValue(m, aAlertTrigger, aValue) ==
    IF aAlertTrigger = PowerOverLimit
      THEN CDiv(aValue, m.Config.mPowerMicroWattPerBit)
    ELSE IF aAlertTrigger \in {ClearTriggers, ConversionReady}
      THEN 0
    ELSE IF aAlertTrigger \in {ShuntVoltageOverLimit, ShuntVoltageUnderLimit}
      THEN CDiv(aValue * 2, 5)
    ELSE CDiv(aValue, INA226_BUS_VOLTAGE_LSB)

\* lines 308-310: the latching bit is ORed in when asked for
MaskEnableLatching(theMaskEnableRegister, aLatching) ==
    IF aLatching THEN Or16(theMaskEnableRegister, cAlertLatchingMode)
    ELSE theMaskEnableRegister

\* lines 305-310: the new value of the mask/enable register from the one read
MaskEnableValue(theMaskEnableRegister, aAlertTrigger, aLatching) ==
    MaskEnableLatching(
        Or16(Clear16(theMaskEnableRegister, cAlertPinModeMask), ToU16(aAlertTrigger)),
        aLatching)

\* lines 347-349: after the write of the alert limit
INA226_ConfigureAlertPinTrigger_WriteMask(F, c, theMaskEnableRegister) ==
    IF c.ret THEN Outcome(c.m, c.s, 0)
    ELSE Return(INA226_WriteRegister(F, c.m, INA226_MASK_ENABLE, theMaskEnableRegister))

\* lines 302-347: after the read of the mask/enable register
INA226_ConfigureAlertPinTrigger_Switch(F, c, aAlertTrigger, aValue, aLatching) ==
    IF c.ret THEN Outcome(c.m, c.s, 0)
    ELSE IF aAlertTrigger \notin AlertTriggers THEN Outcome(c.m, "BAD_PARAMETER", 0)
    ELSE INA226_ConfigureAlertPinTrigger_WriteMask(F,
            CALL_FN(F, [fn |-> "INA226_WriteRegister", a |-> INA226_ALERT_LIMIT,
                        b |-> ToU16(ToI16(AlertValue(c.m, aAlertTrigger, aValue)))], c.m),
            MaskEnableValue(c.v, aAlertTrigger, aLatching))

INA226_ConfigureAlertPinTrigger(F, m, aAlertTrigger, aValue, aLatching) ==
    IF CHECK_INITIALIZED(m) THEN Outcome(m, "NOT_INITIALIZED", 0)
    ELSE INA226_ConfigureAlertPinTrigger_Switch(F,
            CALL_FN(F, [fn |-> "INA226_ReadRegister", a |-> INA226_MASK_ENABLE, b |-> 0], m),
            aAlertTrigger, aValue, aLatching)

\* lines 369-376: after the read of the mask/enable register
INA226_ResetAlertPin_Cause(c) ==
    IF c.ret THEN Outcome(c.m, c.s, Unknown)
    ELSE Outcome(c.m, "OK", And16(c.v, cAlertCauseMask))

INA226_ResetAlertPin(F, m) ==
    IF CHECK_INITIALIZED(m) THEN Outcome(m, "NOT_INITIALIZED", Unknown)
    ELSE INA226_ResetAlertPin_Cause(
            CALL_FN(F, [fn |-> "INA226_ReadRegister", a |-> INA226_MASK_ENABLE, b |-> 0], m))

-----------------------------------------------------------------------------
(* Inputs *)

\* The fault patterns of one driver call: the bus is disturbed for up to n
\* consecutive transport calls, starting at any of the first calls calls.
FaultSets(calls, n) ==
    {{}} \cup {p .. (p + len - 1) : p \in 1..calls, len \in 1..n}

\* the number of transport calls a driver call with outcome o issued
Issued(o) == Len(o.m.log)

Addresses   == {64}
\* <<shunt resistor in milliohms, maximum current in milliamps>>
CalibInputs == {<<10, 20000>>, <<100, 1000>>}
OpModes     == 0..7
IndexArgs   == -1 .. (cMaxSampleAvgTblIdx + 1)
\* 512 (0x0200) is no alert trigger
TriggerArgs == AlertTriggers \cup {512}
ValueArgs   == {-2600, 3210, 12000000}

\* the conversion results the chip holds after its k-th kind of conversion
Sample(k) == [shunt |-> ToU16(-100 * k), bus |-> ToU16(9600 * k),
              power |-> ToU16(314 * k), current |-> ToU16(-41 * k)]

-----------------------------------------------------------------------------
(* The state machine *)

M == [Config |-> Config, Result |-> Result, reg |-> reg, log |-> <<>>]

\* the INA226_config object in zeroed storage, before the constructor ran
ZeroedConfig ==
    [mInitialized |-> FALSE, mI2C_Address |-> 0, mConfigRegister |-> 0,
     mCalibrationValue |-> 0, mCurrentMicroAmpsPerBit |-> 0, mPowerMicroWattPerBit |-> 0]

PowerOnRegisters ==
    [r \in Registers |->
        IF r = INA226_CONFIG THEN INA226_CONFIG_RESET_VALUE
        ELSE IF r = INA226_MANUFACTURER_ID THEN INA226_MANUFACTURER_ID_K
        ELSE IF r = INA226_DIE_ID THEN INA226_DIE_ID_K
        ELSE 0]

Init ==
    /\ Config = INA226_Constructor([Config |-> ZeroedConfig], 64).Config
    /\ Result = [ShuntVoltage_uV |-> 0, BusVoltage_uV |-> 0, Current_uA |-> 0, Power_uW |-> 0]
    /\ reg = PowerOnRegisters
    /\ lastOp = [name |-> "Constructor", arg |-> 0, val |-> 0, latch |-> FALSE]
    /\ lastStatus = "NONE"
    /\ lastRet = 0
    /\ busLog = <<>>
    /\ pre = [Config |-> Config, reg |-> reg, mode |-> 0]
    /\ hibernated = 0
    /\ steps = 0

\* History of the operating mode to restore.  A Hibernate that returns OK
\* with no failed transport call while the chip is in a mode other than the
\* two power-down codes records that mode; a later Hibernate,
\* ConfigureNumSampleAveraging or ConfigureVoltageConversionTime that returns
\* OK keeps the record; every other call or register change drops it.
Remembered(name, o) ==
    IF o.s # "OK" \/ \E i \in 1..Len(o.m.log) : ~o.m.log[i].ok THEN 0
    ELSE IF name = "Hibernate"
      THEN IF And16(reg[INA226_CONFIG], cOperatingModeMask) \in {0, Shutdown}
             THEN hibernated
             ELSE And16(reg[INA226_CONFIG], cOperatingModeMask)
    ELSE IF name \in {"ConfigureNumSampleAveraging", "ConfigureVoltageConversionTime"}
      THEN hibernated
    ELSE 0

\* one call of a driver function with outcome o
Call(name, arg, val, latch, o) ==
    /\ Config' = o.m.Config
    /\ Result' = o.m.Result
    /\ reg' = o.m.reg
    /\ busLog' = o.m.log
    /\ lastOp' = [name |-> name, arg |-> arg, val |-> val, latch |-> latch]
    /\ lastStatus' = o.s
    /\ lastRet' = o.out
    /\ pre' = [Config |-> Config, reg |-> reg, mode |-> hibernated]
    /\ hibernated' = Remembered(name, o)
    /\ steps' = steps + 1

\* a change of the chip's registers that is not the driver's doing
External(name, arg, rg) ==
    /\ reg' = rg
    /\ lastOp' = [name |-> name, arg |-> arg, val |-> 0, latch |-> FALSE]
    /\ lastStatus' = "NONE"
    /\ lastRet' = 0
    /\ busLog' = <<>>
    /\ pre' = [Config |-> Config, reg |-> reg, mode |-> hibernated]
    /\ hibernated' = 0
    /\ steps' = steps + 1
    /\ UNCHANGED <<Config, Result>>

(* A profile P names the inputs a specification draws from: the length of a *)
(* bus disturbance, the arguments, and the length of a run.  A failure      *)
(* makes a function return early or skip a receive and never adds a         *)
(* transport call, so the fault patterns range over the calls the function  *)
(* issues, with the same arguments, on an undisturbed bus.                  *)

InitDevice(P) ==
    /\ steps < P.depth
    /\ \E a \in Addresses, c \in P.calib, k \in 0..P.ext :
          \E F \in FaultSets(Issued(INA226_Init({}, M, a, c[1], c[2], k)), P.faults) :
          Call("Init", c[1], c[2], FALSE, INA226_Init(F, M, a, c[1], c[2], k))

Hibernate(P) ==
    /\ steps < P.depth
    /\ \E F \in FaultSets(Issued(INA226_Hibernate({}, M)), P.faults) :
          Call("Hibernate", 0, 0, FALSE, INA226_Hibernate(F, M))

Wakeup(P) ==
    /\ steps < P.depth
    /\ \E F \in FaultSets(Issued(INA226_Wakeup({}, M)), P.faults) :
          Call("Wakeup", 0, 0, FALSE, INA226_Wakeup(F, M))

SetOperatingMode(P) ==
    /\ steps < P.depth
    /\ \E aOpMode \in P.modes :
          \E F \in FaultSets(Issued(INA226_SetOperatingMode({}, M, aOpMode)), P.faults) :
          Call("SetOperatingMode", aOpMode, 0, FALSE, INA226_SetOperatingMode(F, M, aOpMode))

ConfigureVoltageConversionTime(P) ==
    /\ steps < P.depth
    /\ \E i \in P.idx :
          \E F \in FaultSets(Issued(INA226_ConfigureVoltageConversionTime({}, M, i)), P.faults) :
          Call("ConfigureVoltageConversionTime", i, 0, FALSE, INA226_ConfigureVoltageConversionTime(F, M, i))

ConfigureNumSampleAveraging(P) ==
    /\ steps < P.depth
    /\ \E i \in P.idx :
          \E F \in FaultSets(Issued(INA226_ConfigureNumSampleAveraging({}, M, i)), P.faults) :
          Call("ConfigureNumSampleAveraging", i, 0, FALSE, INA226_ConfigureNumSampleAveraging(F, M, i))

Debug_GetConfigRegister(P) ==
    /\ steps < P.depth
    /\ \E F \in FaultSets(Issued(INA226_Debug_GetConfigRegister({}, M)), P.faults) :
          Call("Debug_GetConfigRegister", 0, 0, FALSE, INA226_Debug_GetConfigRegister(F, M))

ConfigureAlertPinTrigger(P) ==
    /\ steps < P.depth
    /\ \E t \in P.trig, v \in P.vals, l \in BOOLEAN :
          \E F \in FaultSets(Issued(INA226_ConfigureAlertPinTrigger({}, M, t, v, l)), P.faults) :
          Call("ConfigureAlertPinTrigger", t, v, l, INA226_ConfigureAlertPinTrigger(F, M, t, v, l))

ResetAlertPin(P) ==
    /\ steps < P.depth
    /\ \E F \in FaultSets(Issued(INA226_ResetAlertPin({}, M)), P.faults) :
          Call("ResetAlertPin", 0, 0, FALSE, INA226_ResetAlertPin(F, M))

GetShuntVoltage_uV(P) ==
    /\ steps < P.depth
    /\ \E F \in FaultSets(Issued(INA226_GetShuntVoltage_uV({}, M)), P.faults) :
          Call("GetShuntVoltage_uV", 0, 0, FALSE, INA226_GetShuntVoltage_uV(F, M))

GetBusVoltage_uV(P) ==
    /\ steps < P.depth
    /\ \E F \in FaultSets(Issued(INA226_GetBusVoltage_uV({}, M)), P.faults) :
          Call("GetBusVoltage_uV", 0, 0, FALSE, INA226_GetBusVoltage_uV(F, M))

GetCurrent_uA(P) ==
    /\ steps < P.depth
    /\ \E F \in FaultSets(Issued(INA226_GetCurrent_uA({}, M)), P.faults) :
          Call("GetCurrent_uA", 0, 0, FALSE, INA226_GetCurrent_uA(F, M))

GetPower_uW(P) ==
    /\ steps < P.depth
    /\ \E F \in FaultSets(Issued(INA226_GetPower_uW({}, M)), P.faults) :
          Call("GetPower_uW", 0, 0, FALSE, INA226_GetPower_uW(F, M))

MeasureAll(P) ==
    /\ steps < P.depth
    /\ \E F \in FaultSets(Issued(INA226_MeasureAll({}, M)), P.faults) :
          Call("MeasureAll", 0, 0, FALSE, INA226_MeasureAll(F, M))

\* another bus master rewrites the configuration register
ExternalConfigChange(P) ==
    /\ steps < P.depth
    /\ \E k \in 1..P.ext :
          External("ExternalConfigChange", k, [reg EXCEPT ![INA226_CONFIG] = ExtConfig(k)])

\* the chip finishes a conversion
Conversion(P) ==
    /\ steps < P.depth
    /\ \E k \in 0..MaxSample :
          External("Conversion", k,
                   [reg EXCEPT ![INA226_SHUNT_VOLTAGE] = Sample(k).shunt,
                               ![INA226_BUS_VOLTAGE] = Sample(k).bus,
                               ![INA226_POWER] = Sample(k).power,
                               ![INA226_CURRENT] = Sample(k).current])

\* the chip latches an alert: the alert function flag (0x10) or the
\* conversion ready flag (0x08)
AlertFires(P) ==
    /\ steps < P.depth
    /\ \E cause \in {16, 8} :
          External("AlertFires", cause,
                   [reg EXCEPT ![INA226_MASK_ENABLE] = Or16(reg[INA226_MASK_ENABLE], cause)])

\* a different chip answers at the address
ReplaceDevice(P) ==
    /\ steps < P.depth
    /\ \E d \in {<<INA226_MANUFACTURER_ID_K, INA226_DIE_ID_K>>,
                 <<INA226_MANUFACTURER_ID_K + 1, INA226_DIE_ID_K>>,
                 <<INA226_MANUFACTURER_ID_K, INA226_DIE_ID_K + 16>>} :
          External("ReplaceDevice", d[1] + d[2],
                   [reg EXCEPT ![INA226_MANUFACTURER_ID] = d[1], ![INA226_DIE_ID] = d[2]])

\* the whole driver on a bus whose transport calls can fail, with few arguments
Full == [faults |-> MaxFaults, modes |-> {0, 5}, idx |-> {-1, 3, cMaxSampleAvgTblIdx + 1},
         trig |-> {BusVoltageOverLimit, PowerOverLimit, 512}, vals |-> {3210},
         calib |-> {<<10, 20000>>}, ext |-> 1, depth |-> MaxSteps]

Next ==
    \/ InitDevice(Full)
    \/ Hibernate(Full)
    \/ Wakeup(Full)
    \/ SetOperatingMode(Full)
    \/ ConfigureVoltageConversionTime(Full)
    \/ ConfigureNumSampleAveraging(Full)
    \/ Debug_GetConfigRegister(Full)
    \/ ConfigureAlertPinTrigger(Full)
    \/ ResetAlertPin(Full)
    \/ GetShuntVoltage_uV(Full)
    \/ GetBusVoltage_uV(Full)
    \/ GetCurrent_uA(Full)
    \/ GetPower_uW(Full)
    \/ MeasureAll(Full)
    \/ ExternalConfigChange(Full)
    \/ Conversion(Full)
    \/ AlertFires(Full)
    \/ ReplaceDevice(Full)

Spec == Init /\ [][Next]_vars

\* the power-state and configuration functions with every argument on an
\* undisturbed bus, while another bus master changes the configuration register
Cfg == [faults |-> 0, modes |-> OpModes, idx |-> IndexArgs,
        calib |-> {<<10, 20000>>}, ext |-> MaxExt, depth |-> MaxCfgSteps]

\* the state in which a run begins after a call of INA226_Init with outcome o
\* on the constructed device
Started(o) ==
    /\ Config = o.m.Config
    /\ Result = o.m.Result
    /\ reg = o.m.reg
    /\ lastOp = [name |-> "Init", arg |-> 10, val |-> 20000, latch |-> FALSE]
    /\ lastStatus = o.s
    /\ lastRet = o.out
    /\ busLog = o.m.log
    /\ pre = [Config |-> INA226_Constructor([Config |-> ZeroedConfig], 64).Config,
              reg |-> PowerOnRegisters, mode |-> 0]
    /\ hibernated = 0
    /\ steps = 0

\* the device after INA226_Init on an undisturbed bus
Ready ==
    Started(INA226_Init({}, [Config |-> INA226_Constructor([Config |-> ZeroedConfig], 64).Config,
                             Result |-> [ShuntVoltage_uV |-> 0, BusVoltage_uV |-> 0,
                                         Current_uA |-> 0, Power_uW |-> 0],
                             reg |-> PowerOnRegisters, log |-> <<>>],
                        64, 10, 20000, 0))

NextCfg ==
    \/ Hibernate(Cfg)
    \/ Wakeup(Cfg)
    \/ SetOperatingMode(Cfg)
    \/ ConfigureVoltageConversionTime(Cfg)
    \/ ConfigureNumSampleAveraging(Cfg)
    \/ ExternalConfigChange(Cfg)

SpecCfg == Ready /\ [][NextCfg]_vars

\* the power-state functions on a bus whose transport calls can fail
Power == [faults |-> MaxFaults, modes |-> {0, Shutdown, 5}, ext |-> 1, depth |-> MaxPowerSteps]

NextPower ==
    \/ Hibernate(Power)
    \/ Wakeup(Power)
    \/ SetOperatingMode(Power)
    \/ ExternalConfigChange(Power)

SpecPower == Ready /\ [][NextPower]_vars

\* mode changes, Hibernate and Wakeup with every mode on an undisturbed bus,
\* while another bus master changes the configuration register
Wake == [faults |-> 0, modes |-> OpModes, ext |-> MaxExt, depth |-> MaxWakeSteps]

NextWake ==
    \/ Hibernate(Wake)
    \/ Wakeup(Wake)
    \/ SetOperatingMode(Wake)
    \/ ExternalConfigChange(Wake)

SpecWake == Ready /\ [][NextWake]_vars

\* the alert functions on a bus whose transport calls can fail, with
\* thresholds below zero and beyond the 16 bits of the alert-limit register
Alert == [faults |-> MaxFaults,
          trig |-> {ClearTriggers, BusVoltageOverLimit, BusVoltageUnderLimit, PowerOverLimit},
          vals |-> {-2600, 3210, 12000000, 100000000}, depth |-> MaxAlertSteps]

NextAlert ==
    \/ ConfigureAlertPinTrigger(Alert)
    \/ ResetAlertPin(Alert)
    \/ AlertFires(Alert)

SpecAlert == Ready /\ [][NextAlert]_vars

-----------------------------------------------------------------------------
(* Properties *)

GuardedOps == {"Hibernate", "Wakeup", "SetOperatingMode", "ConfigureAlertPinTrigger",
               "ResetAlertPin", "ConfigureVoltageConversionTime",
               "ConfigureNumSampleAveraging", "Debug_GetConfigRegister"}

MeasurementOps == {"GetShuntVoltage_uV", "GetBusVoltage_uV", "GetCurrent_uA",
                   "GetPower_uW", "MeasureAll"}

CheckedOps == {"Init", "Hibernate", "SetOperatingMode", "ConfigureAlertPinTrigger",
               "ResetAlertPin", "ConfigureVoltageConversionTime",
               "ConfigureNumSampleAveraging"}

AllOk == \A i \in 1..Len(busLog) : busLog[i].ok

\* the positions of busLog that are writes of register r
WritesOf(r) == {i \in 1..Len(busLog) : busLog[i].k = "write" /\ busLog[i].r = r}

\* bits lo .. lo+2 of x, and x with those bits removed
Field3(x, lo) == (x \div Pow2(lo)) % 8
Outside3(x, lo) == <<x % Pow2(lo), x \div Pow2(lo + 3)>>

\* C1: on a device that is not marked initialized, each guarded function
\* returns NOT_INITIALIZED, issues no transport call and leaves the driver
\* object (configuration copy, calibration values) as it was, whatever its
\* arguments.
C1_GuardOnUninitialized ==
    (lastOp.name \in GuardedOps /\ ~pre.Config.mInitialized)
        => /\ lastStatus = "NOT_INITIALIZED"
           /\ busLog = <<>>
           /\ Config = pre.Config
           /\ reg = pre.reg

\* an out-of-range averaging index on a device whose initialization failed
\* after the calibration values were computed
C1_Witness ==
    /\ lastOp.name = "ConfigureNumSampleAveraging"
    /\ lastOp.arg = 8
    /\ ~pre.Config.mInitialized
    /\ pre.Config.mCalibrationValue # 0
    /\ lastStatus = "NOT_INITIALIZED"

\* C2: a measurement call on a device that is not marked initialized fails
\* with NOT_INITIALIZED and issues no transport call.
C2_MeasurementGuarded ==
    (lastOp.name \in MeasurementOps /\ ~pre.Config.mInitialized)
        => /\ lastStatus = "NOT_INITIALIZED"
           /\ busLog = <<>>

\* C3: when INA226_Init returns a status other than OK the device is not
\* marked initialized, also when it was before the call.
C3_FailedInitNotInitialized ==
    (lastOp.name = "Init" /\ lastStatus # "OK") => ~Config.mInitialized

\* a read-back mismatch in the Init of a device that an earlier Init had
\* initialized
C3_Witness ==
    /\ lastOp.name = "Init"
    /\ lastStatus = "CONFIG_ERROR"
    /\ pre.Config.mInitialized
    /\ ~Config.mInitialized

\* C4: in the functions that check their steps, a transport call that reports
\* failure is the last transport call of the function, and the function
\* returns a status other than OK.
C4_FirstFailureEnds ==
    lastOp.name \in CheckedOps
        => \A i \in 1..Len(busLog) :
              ~busLog[i].ok => (i = Len(busLog) /\ lastStatus # "OK")

\* C5: an Init that leaves the device marked initialized issued exactly one
\* write of the calibration register, after the configuration read-back.
C5_OneCalibrationWrite ==
    (lastOp.name = "Init" /\ Config.mInitialized)
        => /\ Cardinality(WritesOf(INA226_CALIBRATION)) = 1
           /\ \A i \in WritesOf(INA226_CALIBRATION) :
                 \E j \in 1..(i - 1) : /\ busLog[j].k = "rx"
                                       /\ busLog[j].r = INA226_CONFIG
                                       /\ busLog[j].ok
                                       /\ busLog[j].v = INA226_CONFIG_DEFAULT

\* C6: on an initialized device and an undisturbed bus, with c the chip's
\* configuration register when the call begins, SetOperatingMode,
\* ConfigureNumSampleAveraging and ConfigureVoltageConversionTime with a
\* valid argument write, as their only write, c with the bits of their field
\* (0x0007; 0x0E00; 0x01C0 and 0x0038) holding the argument and every other
\* bit as in c.
C6_FieldUpdate ==
    (/\ lastOp.name \in {"SetOperatingMode", "ConfigureNumSampleAveraging",
                         "ConfigureVoltageConversionTime"}
     /\ lastOp.arg \in 0..7
     /\ pre.Config.mInitialized
     /\ AllOk)
        => LET c == pre.reg[INA226_CONFIG]
               w == busLog[Len(busLog)]
           IN /\ busLog # <<>>
              /\ w.k = "write" /\ w.r = INA226_CONFIG
              /\ Cardinality({i \in 1..Len(busLog) : busLog[i].k = "write"}) = 1
              /\ lastOp.name = "SetOperatingMode"
                    => /\ Field3(w.v, 0) = lastOp.arg
                       /\ Outside3(w.v, 0) = Outside3(c, 0)
              /\ lastOp.name = "ConfigureNumSampleAveraging"
                    => /\ Field3(w.v, 9) = lastOp.arg
                       /\ Outside3(w.v, 9) = Outside3(c, 9)
              /\ lastOp.name = "ConfigureVoltageConversionTime"
                    => /\ Field3(w.v, 3) = lastOp.arg
                       /\ Field3(w.v, 6) = lastOp.arg
                       /\ w.v % 8 = c % 8
                       /\ w.v \div 512 = c \div 512

\* a mode change while the driver's copy differs from the chip's register
C6_Witness ==
    /\ lastOp.name = "SetOperatingMode"
    /\ lastOp.arg = 3
    /\ pre.Config.mInitialized
    /\ pre.Config.mConfigRegister # pre.reg[INA226_CONFIG]
    /\ AllOk
    /\ lastStatus = "OK"
    /\ reg[INA226_CONFIG] # pre.reg[INA226_CONFIG]

\* C7: on an initialized device ConfigureNumSampleAveraging and
\* ConfigureVoltageConversionTime with an index outside 0..7 return
\* BAD_PARAMETER, issue no transport call and leave the chip's registers and
\* the driver's copy of the configuration as they were.
C7_IndexOutOfRange ==
    (/\ lastOp.name \in {"ConfigureNumSampleAveraging", "ConfigureVoltageConversionTime"}
     /\ pre.Config.mInitialized
     /\ lastOp.arg \notin 0..7)
        => /\ lastStatus = "BAD_PARAMETER"
           /\ busLog = <<>>
           /\ reg = pre.reg
           /\ Config = pre.Config

\* averaging index 8 on an initialized device
C7_Witness ==
    /\ lastOp.name = "ConfigureNumSampleAveraging"
    /\ lastOp.arg = 8
    /\ pre.Config.mInitialized
    /\ pre.Config.mConfigRegister # 0
    /\ lastStatus = "BAD_PARAMETER"

\* C8: on an initialized device Wakeup issues one write, of the configuration
\* register, whose operating-mode bits are never zero; when the mode bits of
\* the driver's copy are zero the value written is the copy with the mode
\* bits set to ShuntAndBusVoltageContinuous and the other bits unchanged, and
\* once that write succeeds the chip is in that mode.
C8_WakeupNeverShutdown ==
    (lastOp.name = "Wakeup" /\ pre.Config.mInitialized)
        => LET snap == pre.Config.mConfigRegister
               w == busLog[1]
           IN /\ Len(busLog) = 1
              /\ w.k = "write" /\ w.r = INA226_CONFIG
              /\ Field3(w.v, 0) # 0
              /\ Field3(snap, 0) = 0
                    => /\ Field3(w.v, 0) = ShuntAndBusVoltageContinuous
                       /\ Outside3(w.v, 0) = Outside3(snap, 0)
                       /\ w.ok => Field3(reg[INA226_CONFIG], 0) = ShuntAndBusVoltageContinuous

\* a wake-up after a Hibernate that began in mode zero
C8_Witness ==
    /\ lastOp.name = "Wakeup"
    /\ pre.Config.mInitialized
    /\ pre.Config.mConfigRegister # 0
    /\ Field3(pre.Config.mConfigRegister, 0) = 0
    /\ Field3(pre.reg[INA226_CONFIG], 0) = 0
    /\ lastStatus = "OK"
    /\ Field3(reg[INA226_CONFIG], 0) = ShuntAndBusVoltageContinuous

\* C9: in ConfigureAlertPinTrigger a failed write of the alert-limit register
\* is followed by no write of the mask/enable register and the function
\* returns a status other than OK; a write of the mask/enable register comes
\* after a successful write of the alert-limit register.
C9_AlertLimitFailureStops ==
    (lastOp.name = "ConfigureAlertPinTrigger" /\ pre.Config.mInitialized)
        => /\ \A i \in WritesOf(INA226_ALERT_LIMIT) :
                 ~busLog[i].ok
                    => /\ \A j \in WritesOf(INA226_MASK_ENABLE) : j < i
                       /\ lastStatus # "OK"
           /\ \A j \in WritesOf(INA226_MASK_ENABLE) :
                 \E i \in WritesOf(INA226_ALERT_LIMIT) : i < j /\ busLog[i].ok

\* C10: ConfigureAlertPinTrigger with a trigger that is none of the seven
\* returns BAD_PARAMETER without any transport call.
C10_BadTriggerNoBus ==
    (/\ lastOp.name = "ConfigureAlertPinTrigger"
     /\ pre.Config.mInitialized
     /\ lastOp.arg \notin AlertTriggers)
        => /\ lastStatus = "BAD_PARAMETER"
           /\ busLog = <<>>

\* the positions of busLog that address register r for a read
ReadsOf(r) == {i \in 1..Len(busLog) : busLog[i].k = "txptr" /\ busLog[i].r = r}

\* C11: MeasureAll addresses each of the four result registers once, and it
\* returns OK exactly when none of its transport calls failed, whatever the
\* four values are.
C11_MeasureAllStatus ==
    lastOp.name = "MeasureAll"
        => /\ \A r \in {INA226_SHUNT_VOLTAGE, INA226_BUS_VOLTAGE,
                         INA226_CURRENT, INA226_POWER} : Cardinality(ReadsOf(r)) = 1
           /\ (lastStatus = "OK") <=> AllOk

\* C12: a ResetAlertPin that returns OK addressed the mask/enable register
\* once, reports the alert-cause bits (0x001E) the register held when the
\* call began, and leaves them cleared.
C12_ResetAlertPinOnce ==
    (lastOp.name = "ResetAlertPin" /\ pre.Config.mInitialized /\ lastStatus = "OK")
        => /\ Cardinality(ReadsOf(INA226_MASK_ENABLE)) = 1
           /\ lastRet = And16(pre.reg[INA226_MASK_ENABLE], cAlertCauseMask)
           /\ And16(reg[INA226_MASK_ENABLE], cAlertCauseMask) = 0

\* C15: for a bus-voltage trigger with threshold v, every value written to
\* the alert-limit register, taken as an unsigned 16-bit count and multiplied
\* by 1250, is v rounded down to a multiple of 1250; on an undisturbed bus
\* the write is issued.
C15_BusAlertRoundTrip ==
    (/\ lastOp.name = "ConfigureAlertPinTrigger"
     /\ pre.Config.mInitialized
     /\ lastOp.arg \in {BusVoltageOverLimit, BusVoltageUnderLimit})
        => /\ \A i \in WritesOf(INA226_ALERT_LIMIT) :
                 busLog[i].v * 1250 = (lastOp.val \div 1250) * 1250
           /\ AllOk => WritesOf(INA226_ALERT_LIMIT) # {}

\* C19: after a ConfigureAlertPinTrigger with a valid cause that returned OK
\* with no failed transport call, the alert-pin mode bits (0xFC00) of the
\* mask/enable register are the cause, its latching bit (0x0001) is set
\* exactly when latching was asked for in this call, and the alert-limit
\* register was written before the mask/enable register.
C19_AlertModeAndLatching ==
    (/\ lastOp.name = "ConfigureAlertPinTrigger"
     /\ pre.Config.mInitialized
     /\ lastOp.arg \in AlertTriggers
     /\ lastStatus = "OK"
     /\ AllOk)
        => /\ And16(reg[INA226_MASK_ENABLE], cAlertPinModeMask) = lastOp.arg
           /\ (And16(reg[INA226_MASK_ENABLE], cAlertLatchingMode) = cAlertLatchingMode)
                 <=> lastOp.latch
           /\ \A j \in WritesOf(INA226_MASK_ENABLE) :
                 \E i \in WritesOf(INA226_ALERT_LIMIT) : i < j

\* C13: in every reachable state mPowerMicroWattPerBit is 25 times
\* mCurrentMicroAmpsPerBit, and a step that is not an INA226_Init (which
\* constructs and calibrates) leaves both values as they were.
C13_PowerScale ==
    /\ Config.mPowerMicroWattPerBit = 25 * Config.mCurrentMicroAmpsPerBit
    /\ lastOp.name \notin {"Constructor", "Init"}
          => /\ Config.mCurrentMicroAmpsPerBit = pre.Config.mCurrentMicroAmpsPerBit
             /\ Config.mPowerMicroWattPerBit = pre.Config.mPowerMicroWattPerBit

\* a MeasureAll with a failed transport call on a calibrated device
C13_Witness ==
    /\ lastOp.name = "MeasureAll"
    /\ ~AllOk
    /\ Config.mCurrentMicroAmpsPerBit = 611
    /\ Config.mPowerMicroWattPerBit = 15275

\* C14: with the shunt R in milliohms and the maximum current I in
\* milliamps, an Init that writes the calibration register has set
\* mCurrentMicroAmpsPerBit to ceil(I * 1000 / 32767) and
\* mPowerMicroWattPerBit to 25 times that, and the value written is
\* floor(0.00512 / (R * LSB)) in ohms and amps, that is
\* floor(5120000 / (R * LSB)): 611, 15275 and 837 for 0.01 ohm and 20 A.
C14_CalibrationValue ==
    lastOp.name = "Init"
        => \A i \in WritesOf(INA226_CALIBRATION) :
              /\ Config.mCurrentMicroAmpsPerBit = (lastOp.val * 1000 + 32766) \div 32767
              /\ Config.mPowerMicroWattPerBit = 25 * Config.mCurrentMicroAmpsPerBit
              /\ busLog[i].v = 5120000 \div (lastOp.arg * Config.mCurrentMicroAmpsPerBit)

\* the step of INA226_Init a transport call belongs to (0: none)
InitPhase(e) ==
    CASE e.k = "probe" -> 1
      [] e.k \in {"txptr", "rx"} /\ e.r = INA226_MANUFACTURER_ID -> 2
      [] e.k \in {"txptr", "rx"} /\ e.r = INA226_DIE_ID -> 3
      [] e.k = "write" /\ e.r = INA226_CONFIG /\ e.v = 32768 -> 4
      [] e.k = "write" /\ e.r = INA226_CONFIG /\ e.v = 17703 -> 5
      [] e.k \in {"txptr", "rx"} /\ e.r = INA226_CONFIG -> 6
      [] e.k = "write" /\ e.r = INA226_CALIBRATION -> 7
      [] OTHER -> 0

\* a read of register r before position i that succeeded and returned v
ReadBefore(i, r, v) ==
    \E j \in 1..(i - 1) : /\ busLog[j].k = "rx" /\ busLog[j].r = r
                          /\ busLog[j].ok /\ busLog[j].v = v

\* C16: every transport call of an INA226_Init belongs to one of the seven
\* steps (probe, manufacturer-ID read, die-ID read, reset write, default
\* write, configuration read-back, calibration write) and no call of a step
\* comes before a call of an earlier step; a register write comes after a
\* manufacturer-ID read that returned 0x5449 and a die-ID read that returned
\* 0x2260, and a calibration write after a configuration read that returned
\* 0x4527.
C16_InitOrder ==
    lastOp.name = "Init"
        => /\ \A i \in 1..Len(busLog) : InitPhase(busLog[i]) # 0
           /\ \A i \in 1..Len(busLog) : \A j \in i..Len(busLog) :
                 InitPhase(busLog[i]) <= InitPhase(busLog[j])
           /\ \A i \in 1..Len(busLog) :
                 busLog[i].k = "write"
                    => /\ ReadBefore(i, INA226_MANUFACTURER_ID, 21577)
                       /\ ReadBefore(i, INA226_DIE_ID, 8800)
           /\ \A i \in WritesOf(INA226_CALIBRATION) : ReadBefore(i, INA226_CONFIG, 17703)

\* an Init that ran all seven steps although a transport call failed
C16_Witness ==
    /\ lastOp.name = "Init"
    /\ ~AllOk
    /\ WritesOf(INA226_CALIBRATION) # {}
    /\ Config.mInitialized

\* C20: INA226_Init returns OK exactly when it leaves the device marked
\* initialized.
C20_InitOkIffInitialized ==
    lastOp.name = "Init" => ((lastStatus = "OK") <=> Config.mInitialized)

\* the transport calls of the last call were one write of v to the
\* configuration register
OneConfigWrite(log, v) ==
    /\ Cardinality({i \in 1..Len(log) : log[i].k = "write"}) = 1
    /\ \A i \in 1..Len(log) :
          log[i].k = "write" => (log[i].r = INA226_CONFIG /\ log[i].v = v)

\* a step that is a Hibernate of an initialized device on an undisturbed bus
\* writes the chip's configuration value with the mode bits cleared and
\* every other bit unchanged, and keeps the value in the driver's copy
HibernateStep ==
    (lastOp'.name = "Hibernate" /\ pre'.Config.mInitialized /\ AllOk')
        => /\ lastStatus' = "OK"
           /\ OneConfigWrite(busLog', pre'.reg[INA226_CONFIG] - (pre'.reg[INA226_CONFIG] % 8))
           /\ Config'.mConfigRegister = pre'.reg[INA226_CONFIG]

\* a Wakeup step right after such a Hibernate, when the mode bits of the
\* value the Hibernate found are in modes, writes that value back
WakeupStep(modes) ==
    (/\ lastOp.name = "Hibernate" /\ pre.Config.mInitialized /\ AllOk
     /\ lastOp'.name = "Wakeup" /\ AllOk'
     /\ Field3(pre.reg[INA226_CONFIG], 0) \in modes)
        => /\ lastStatus' = "OK"
           /\ OneConfigWrite(busLog', pre.reg[INA226_CONFIG])
           /\ reg'[INA226_CONFIG] = pre.reg[INA226_CONFIG]

C18_WakeupRestoresMode ==
    (lastOp.name = "Wakeup" /\ lastStatus = "OK" /\ AllOk /\ pre.mode # 0)
        => Field3(reg[INA226_CONFIG], 0) = pre.mode

====
